---- MODULE Spec2Model ----
(***************************************************************************)
(* Football-management domain of projekt/src: Player, Team, League and     *)
(* Manager.  Objects are identified by small integers (Python identity);   *)
(* every method is one action; a raised exception is recorded in `last`    *)
(* together with whatever the method had already mutated before raising.   *)
(***************************************************************************)
EXTENDS Integers, Sequences, FiniteSets, TLC

VARIABLES
    pl,          \* Player objects: id -> fields
    constructed, \* ids of the Player objects whose __init__ has completed
    team,        \* Team objects: id -> fields
    budget,      \* Manager.budget of the manager of team 1
    league,      \* League.teams (sequence of Team ids)
    file,        \* content of the JSON file written by save_team_to_file
    loaded,      \* Team value returned by the last load_team_from_file
    req,         \* arguments of the last Player(...) constructor call
    ret,         \* value returned by the last League or Manager query
    last         \* last call: [op |-> method name, err |-> exception text or ""]

vars == <<pl, constructed, team, budget, league, file, loaded, req, ret, last>>

----------------------------------------------------------------------------
(* Bounds of the explored window *)

NumPlayers == 2      \* Player objects in the pool of the roster specifications
NumTeams   == 3      \* Team objects in the pool of the league specification
MaxAge     == 41     \* age_up is explored while age < MaxAge (single-player run)
MaxAgeUps  == 1      \* birthdays per pool player in the roster specifications
MaxTrains  == 1      \* training sessions per pool player in the roster specifications
MaxBench   == 1      \* bench_injured_players is explored while Len(bench) < MaxBench
MaxRed     == 2      \* receive_card is explored while red_cards < MaxRed
MaxBudget  == 160    \* sell_player is explored while budget + price <= MaxBudget
MaxLoan    == 2      \* longest loan duration passed to loan_to
MaxYears   == 2      \* longest contract passed to renew_contract
MaxLeague  == 3      \* add_team is explored while Len(teams) < MaxLeague
MaxMatches == 2      \* matches are recorded while wins + draws + losses < MaxMatches
SquadSize  == 12     \* Player objects of the squad specification
NumScorers == 3      \* Player objects of the statistics specification

PlayerIds == 1..NumPlayers
TeamIds   == 1..NumTeams

----------------------------------------------------------------------------
(* Program constants *)

MinAge        == 15      \* player.py:31
MaxPlayerAge  == 50      \* player.py:31
MinRating     == 0       \* player.py:29
MaxRating     == 100     \* player.py:29
FullStamina   == 100     \* player.py:38
StartMorale   == 70      \* player.py:48
StartContract == 3       \* player.py:47
TrainCost     == 10      \* player.py:61
RestGain      == 20      \* player.py:65
DeclineAge    == 30      \* player.py:84
RetireAge     == 40      \* player.py:179
ElevenSize    == 11      \* team.py:78
GoalStep      == 20      \* manager.py:88
StartBudget   == 100     \* manager.py:18

Min(a, b) == IF a < b THEN a ELSE b
Max(a, b) == IF a > b THEN a ELSE b

\* Position enum: auto() numbers the members 1..4 in declaration order
Position == 1..4
PositionNames == <<"GOALKEEPER", "DEFENDER", "MIDFIELDER", "FORWARD">>

\* Position.name
PositionName(pos) == PositionNames[pos]

\* Position[name]; 0 stands for the KeyError of an unknown name
PositionByName(nm) ==
    IF \E k \in Position : PositionNames[k] = nm
    THEN CHOOSE k \in Position : PositionNames[k] = nm
    ELSE 0

NoClub == "None"

----------------------------------------------------------------------------
(* Player *)

\* Player.__init__ validation: the exception text, "" when the checks pass
PlayerInitErrStrict(age, overall_rating) ==
    IF overall_rating <= MinRating \/ overall_rating > MaxRating
    THEN "Overall rating must be between 0 and 100."
    ELSE IF age < MinAge \/ age >= MaxPlayerAge
    THEN "Invalid age for player."
    ELSE ""

PlayerInitErr(age, overall_rating) ==
    IF overall_rating < MinRating \/ overall_rating > MaxRating
    THEN "Overall rating must be between 0 and 100."
    ELSE IF age < MinAge \/ age > MaxPlayerAge
    THEN "Invalid age for player."
    ELSE ""

\* Player.__init__ field initialisation
PlayerInit(name, position, age, overall_rating) ==
    [name |-> name, position |-> position, age |-> age,
     overall_rating |-> overall_rating, stamina |-> FullStamina,
     injured |-> FALSE, is_captain |-> FALSE, goals |-> 0, assists |-> 0,
     matches_played |-> 0, yellow_cards |-> 0, red_cards |-> 0,
     suspended |-> FALSE, contract_years_left |-> StartContract,
     morale |-> StartMorale, retired |-> FALSE, on_loan |-> FALSE,
     loaned_to |-> NoClub, loan_duration |-> 0]

\* the slot of a Player object that has not been constructed
Blank == PlayerInit("", 1, 0, 0)

\* constructor arguments of the pool players of the roster specifications
PoolName(p)   == <<"P1", "P2", "P3", "P4">>[p]
PoolPos(p)    == <<4, 1, 2, 3>>[p]
PoolAge(p)    == <<50, 39, 30, 28>>[p]
PoolRating(p) == <<100, 0, 70, 85>>[p]
PoolPlayer(p) == PlayerInit(PoolName(p), PoolPos(p), PoolAge(p), PoolRating(p))

\* the value a call returned: a Team or Player (0 stands for None), a match
\* text, a truth value, or a dictionary of Team statistics
NoStats ==
    [points |-> 0, wins |-> 0, draws |-> 0, losses |-> 0, goals_scored |-> 0,
     goals_conceded |-> 0]
NoRet ==
    [team |-> 0, player |-> 0, who |-> "", left |-> 0, right |-> 0,
     flag |-> FALSE, stats |-> NoStats]

Done(op)      == [op |-> op, err |-> ""]
Raised(op, e) == [op |-> op, err |-> e]

\* Player(name, position, age, overall_rating) into the free slot p
Construct(p, age, overall_rating) ==
    /\ p \notin constructed
    /\ req' = [age |-> age, rating |-> overall_rating]
    /\ LET e == PlayerInitErr(age, overall_rating) IN
       IF e # ""
       THEN /\ last' = Raised("Player", e)
            /\ UNCHANGED <<pl, constructed>>
       ELSE /\ pl' = [pl EXCEPT ![p] = PlayerInit("P1", 4, age, overall_rating)]
            /\ constructed' = constructed \cup {p}
            /\ last' = Done("Player")
    /\ UNCHANGED <<team, budget, league, file, loaded, ret>>

\* train(): the new fields
TrainedNoCap(q) ==
    IF q.injured THEN q
    ELSE [q EXCEPT !.overall_rating = q.overall_rating + 1,
                   !.stamina = Max(0, q.stamina - TrainCost)]

Trained(q) ==
    IF q.injured THEN q
    ELSE [q EXCEPT !.overall_rating = Min(MaxRating, q.overall_rating + 1),
                   !.stamina = Max(0, q.stamina - TrainCost)]

Train(p) ==
    /\ p \in constructed
    /\ pl' = [pl EXCEPT ![p] = Trained(pl[p])]
    /\ last' = Done("train")
    /\ UNCHANGED <<constructed, team, budget, league, file, loaded, req, ret>>

\* rest(): the new fields
RestedNoCap(q) == [q EXCEPT !.stamina = q.stamina + RestGain]

Rested(q) == [q EXCEPT !.stamina = Min(FullStamina, q.stamina + RestGain)]

Rest(p) ==
    /\ p \in constructed
    /\ pl' = [pl EXCEPT ![p] = Rested(pl[p])]
    /\ last' = Done("rest")
    /\ UNCHANGED <<constructed, team, budget, league, file, loaded, req, ret>>

Injure(p) ==
    /\ p \in constructed
    /\ pl' = [pl EXCEPT ![p].injured = TRUE]
    /\ last' = Done("injure")
    /\ UNCHANGED <<constructed, team, budget, league, file, loaded, req, ret>>

RecoverFromInjury(p) ==
    /\ p \in constructed
    /\ IF ~pl[p].injured
       THEN /\ last' = Raised("recover_from_injury", "Player is not injured.")
            /\ UNCHANGED pl
       ELSE /\ pl' = [pl EXCEPT ![p].injured = FALSE]
            /\ last' = Done("recover_from_injury")
    /\ UNCHANGED <<constructed, team, budget, league, file, loaded, req, ret>>

\* age_up(): the new fields
Aged(q) ==
    LET a == q.age + 1 IN
    [q EXCEPT !.age = a,
              !.overall_rating = IF a > DeclineAge
                                 THEN Max(0, q.overall_rating - 1)
                                 ELSE q.overall_rating]

\* age_up() of the single player, explored below MaxAge
AgeUp(p) ==
    /\ p \in constructed
    /\ pl[p].age < MaxAge
    /\ pl' = [pl EXCEPT ![p] = Aged(pl[p])]
    /\ last' = Done("age_up")
    /\ UNCHANGED <<constructed, team, budget, league, file, loaded, req, ret>>

\* age_up() of a pool player, explored for MaxAgeUps birthdays
PoolAgeUp(p) ==
    /\ p \in constructed
    /\ pl[p].age < PoolAge(p) + MaxAgeUps
    /\ pl' = [pl EXCEPT ![p] = Aged(pl[p])]
    /\ last' = Done("age_up")
    /\ UNCHANGED <<constructed, team, budget, league, file, loaded, req, ret>>

\* change_morale(amount): isinstance(amount, int) fails for isInt = FALSE
MoraleChanged(q, amount) ==
    [q EXCEPT !.morale = Max(0, Min(100, q.morale + amount))]

ChangeMorale(p, amount, isInt) ==
    /\ p \in constructed
    /\ IF ~isInt
       THEN /\ last' = Raised("change_morale", "Morale change must be an integer.")
            /\ UNCHANGED pl
       ELSE /\ pl' = [pl EXCEPT ![p] = MoraleChanged(pl[p], amount)]
            /\ last' = Done("change_morale")
    /\ UNCHANGED <<constructed, team, budget, league, file, loaded, req, ret>>

\* check_retirement(): the new fields
RetirementCheckedPast(q) == IF q.age > RetireAge THEN [q EXCEPT !.retired = TRUE] ELSE q

RetirementChecked(q) == IF q.age >= RetireAge THEN [q EXCEPT !.retired = TRUE] ELSE q

CheckRetirement(p) ==
    /\ p \in constructed
    /\ pl' = [pl EXCEPT ![p] = RetirementChecked(pl[p])]
    /\ last' = Done("check_retirement")
    /\ UNCHANGED <<constructed, team, budget, league, file, loaded, req, ret>>

\* record_match(goals, assists): the new fields
Recorded(q, goals, assists) ==
    [q EXCEPT !.goals = q.goals + goals, !.assists = q.assists + assists,
              !.matches_played = q.matches_played + 1]

RecordMatch(p, goals, assists) ==
    /\ p \in constructed
    /\ pl[p].matches_played < MaxMatches
    /\ IF goals < 0 \/ assists < 0
       THEN /\ last' = Raised("record_match", "Goals and assists cannot be negative.")
            /\ UNCHANGED pl
       ELSE /\ pl' = [pl EXCEPT ![p] = Recorded(pl[p], goals, assists)]
            /\ last' = Done("record_match")
    /\ UNCHANGED <<constructed, team, budget, league, file, loaded, req, ret>>

\* change_position(new_position); isPosition is isinstance(new_position, Position)
ChangePosition(p, new_position, isPosition) ==
    /\ p \in constructed
    /\ IF ~isPosition
       THEN /\ last' = Raised("change_position",
                              "new_position must be an instance of Position enum.")
            /\ UNCHANGED pl
       ELSE /\ pl' = [pl EXCEPT ![p].position = new_position]
            /\ last' = Done("change_position")
    /\ UNCHANGED <<constructed, team, budget, league, file, loaded, req, ret>>

PromoteToCaptain(p) ==
    /\ p \in constructed
    /\ pl' = [pl EXCEPT ![p].is_captain = TRUE]
    /\ last' = Done("promote_to_captain")
    /\ UNCHANGED <<constructed, team, budget, league, file, loaded, req, ret>>

DemoteFromCaptain(p) ==
    /\ p \in constructed
    /\ pl' = [pl EXCEPT ![p].is_captain = FALSE]
    /\ last' = Done("demote_from_captain")
    /\ UNCHANGED <<constructed, team, budget, league, file, loaded, req, ret>>

\* receive_card(card_type): the fields when the call returns or raises
CardedKeepYellow(q, card_type) ==
    IF card_type = "yellow"
    THEN IF q.yellow_cards + 1 = 2
         THEN [q EXCEPT !.yellow_cards = 2, !.red_cards = q.red_cards + 1,
                        !.suspended = TRUE]
         ELSE [q EXCEPT !.yellow_cards = q.yellow_cards + 1]
    ELSE IF card_type = "red"
    THEN [q EXCEPT !.red_cards = q.red_cards + 1, !.suspended = TRUE]
    ELSE q

CardedNoSuspension(q, card_type) ==
    IF card_type = "yellow"
    THEN IF q.yellow_cards + 1 = 2
         THEN [q EXCEPT !.yellow_cards = 0, !.red_cards = q.red_cards + 1]
         ELSE [q EXCEPT !.yellow_cards = q.yellow_cards + 1]
    ELSE IF card_type = "red"
    THEN [q EXCEPT !.red_cards = q.red_cards + 1, !.suspended = TRUE]
    ELSE q

CardedBeforeCheck(q, card_type) ==
    IF card_type = "red"
    THEN [q EXCEPT !.red_cards = q.red_cards + 1, !.suspended = TRUE]
    ELSE IF q.yellow_cards + 1 = 2
    THEN [q EXCEPT !.yellow_cards = 0, !.red_cards = q.red_cards + 1,
                   !.suspended = TRUE]
    ELSE [q EXCEPT !.yellow_cards = q.yellow_cards + 1]

Carded(q, card_type) ==
    IF card_type = "yellow"
    THEN IF q.yellow_cards + 1 = 2
         THEN [q EXCEPT !.yellow_cards = 0, !.red_cards = q.red_cards + 1,
                        !.suspended = TRUE]
         ELSE [q EXCEPT !.yellow_cards = q.yellow_cards + 1]
    ELSE IF card_type = "red"
    THEN [q EXCEPT !.red_cards = q.red_cards + 1, !.suspended = TRUE]
    ELSE q

CardTypes == {"yellow", "red", "blue"}

ReceiveCard(p, card_type) ==
    /\ p \in constructed
    /\ pl[p].red_cards < MaxRed
    /\ pl' = [pl EXCEPT ![p] = Carded(pl[p], card_type)]
    /\ last' = IF card_type \in {"yellow", "red"}
               THEN Done("receive_card")
               ELSE Raised("receive_card", "Invalid card type.")
    /\ UNCHANGED <<constructed, team, budget, league, file, loaded, req, ret>>

ResetCards(p) ==
    /\ p \in constructed
    /\ pl' = [pl EXCEPT ![p].yellow_cards = 0, ![p].red_cards = 0,
                        ![p].suspended = FALSE]
    /\ last' = Done("reset_cards")
    /\ UNCHANGED <<constructed, team, budget, league, file, loaded, req, ret>>

RenewContract(p, years) ==
    /\ p \in constructed
    /\ IF years <= 0
       THEN /\ last' = Raised("renew_contract", "Contract must be for at least 1 year.")
            /\ UNCHANGED pl
       ELSE /\ pl' = [pl EXCEPT ![p].contract_years_left = years]
            /\ last' = Done("renew_contract")
    /\ UNCHANGED <<constructed, team, budget, league, file, loaded, req, ret>>

DecrementContract(p) ==
    /\ p \in constructed
    /\ pl' = [pl EXCEPT ![p].contract_years_left = IF @ > 0 THEN @ - 1 ELSE @]
    /\ last' = Done("decrement_contract")
    /\ UNCHANGED <<constructed, team, budget, league, file, loaded, req, ret>>

Clubs == {"Ajax"}

LoanTo(p, club_name, duration) ==
    /\ p \in constructed
    /\ IF pl[p].on_loan
       THEN /\ last' = Raised("loan_to", "Player is already on loan.")
            /\ UNCHANGED pl
       ELSE IF duration <= 0
       THEN /\ last' = Raised("loan_to", "Duration must be positive.")
            /\ UNCHANGED pl
       ELSE /\ pl' = [pl EXCEPT ![p].on_loan = TRUE, ![p].loaned_to = club_name,
                                ![p].loan_duration = duration]
            /\ last' = Done("loan_to")
    /\ UNCHANGED <<constructed, team, budget, league, file, loaded, req, ret>>

\* return_from_loan(): the fields after a successful return
ReturnedKeepsClub(q) == [q EXCEPT !.on_loan = FALSE, !.loan_duration = 0]

Returned(q) == [q EXCEPT !.on_loan = FALSE, !.loaned_to = NoClub, !.loan_duration = 0]

ReturnFromLoan(p) ==
    /\ p \in constructed
    /\ IF ~pl[p].on_loan
       THEN /\ last' = Raised("return_from_loan", "Player is not on loan.")
            /\ UNCHANGED pl
       ELSE /\ pl' = [pl EXCEPT ![p] = Returned(pl[p])]
            /\ last' = Done("return_from_loan")
    /\ UNCHANGED <<constructed, team, budget, league, file, loaded, req, ret>>

\* reduce_loan_duration(): the new fields
LoanReducedLate(q) ==
    IF ~q.on_loan THEN q
    ELSE LET r == [q EXCEPT !.loan_duration = q.loan_duration - 1] IN
         IF r.loan_duration < 0 THEN Returned(r) ELSE r

LoanReduced(q) ==
    IF ~q.on_loan THEN q
    ELSE LET r == [q EXCEPT !.loan_duration = q.loan_duration - 1] IN
         IF r.loan_duration <= 0 THEN Returned(r) ELSE r

ReduceLoanDuration(p) ==
    /\ p \in constructed
    /\ pl' = [pl EXCEPT ![p] = LoanReduced(pl[p])]
    /\ last' = Done("reduce_loan_duration")
    /\ UNCHANGED <<constructed, team, budget, league, file, loaded, req, ret>>

----------------------------------------------------------------------------
(* Team *)

\* max_players and points are no attributes Team defines: each exists once a
\* caller assigns it
NoAttr == -1

TeamName(t) == <<"Alpha", "Beta", "Alpha", "Gamma">>[t]

\* Team.__init__; alias records that starting_eleven is the very list object
\* bound to players (assign_starting_eleven keeps the caller's list)
TeamInit(name) ==
    [name |-> name, players |-> <<>>, formation |-> "4-4-2",
     starting_eleven |-> <<>>, alias |-> FALSE, bench |-> <<>>,
     goals_scored |-> 0, goals_conceded |-> 0, wins |-> 0, draws |-> 0,
     losses |-> 0, max_players |-> NoAttr, points |-> NoAttr]

\* x in list
InSeq(x, s) == \E i \in 1..Len(s) : s[i] = x

\* list.remove(x) for x in list: drops the first occurrence
RemoveFirst(s, x) ==
    LET k == CHOOSE i \in 1..Len(s) : s[i] = x /\ \A j \in 1..(i - 1) : s[j] # x
    IN  SubSeq(s, 1, k - 1) \o SubSeq(s, k + 1, Len(s))

\* an in-place change of the players list shows through an aliased starting_eleven
WithPlayers(tm, ps) ==
    [tm EXCEPT !.players = ps,
               !.starting_eleven = IF tm.alias THEN ps ELSE @]

Res(tm, e) == [t |-> tm, err |-> e]

\* add_player(player): the Team when the call returns or raises, and the error
AddPlayerResNoDupCheck(tm, p) ==
    IF pl[p].retired THEN Res(tm, "Cannot add retired player.")
    ELSE Res(WithPlayers(tm, Append(tm.players, p)), "")

AddPlayerResNoRetiredCheck(tm, p) ==
    IF InSeq(p, tm.players) THEN Res(tm, "Player already in team.")
    ELSE Res(WithPlayers(tm, Append(tm.players, p)), "")

AddPlayerRes(tm, p) ==
    IF InSeq(p, tm.players) THEN Res(tm, "Player already in team.")
    ELSE IF pl[p].retired THEN Res(tm, "Cannot add retired player.")
    ELSE Res(WithPlayers(tm, Append(tm.players, p)), "")

\* remove_player(player)
RemovePlayerRes(tm, p) ==
    IF ~InSeq(p, tm.players) THEN Res(tm, "Player not found.")
    ELSE Res(WithPlayers(tm, RemoveFirst(tm.players, p)), "")

\* swap_players(player_out, player_in): remove_player, then add_player on what
\* remove_player left
SwapPlayersResNoCheck(tm, player_out, player_in) ==
    LET r == IF InSeq(player_out, tm.players) THEN RemovePlayerRes(tm, player_out).t
             ELSE tm
    IN  AddPlayerRes(r, player_in)

SwapPlayersRes(tm, player_out, player_in) ==
    IF ~InSeq(player_out, tm.players)
    THEN Res(tm, "Player to remove is not in the team.")
    ELSE AddPlayerRes(RemovePlayerRes(tm, player_out).t, player_in)

AddPlayer(t, p) ==
    /\ LET r == AddPlayerRes(team[t], p) IN
       /\ team' = [team EXCEPT ![t] = r.t]
       /\ last' = Raised("add_player", r.err)
    /\ UNCHANGED <<pl, constructed, budget, league, file, loaded, req, ret>>

RemovePlayer(t, p) ==
    /\ LET r == RemovePlayerRes(team[t], p) IN
       /\ team' = [team EXCEPT ![t] = r.t]
       /\ last' = Raised("remove_player", r.err)
    /\ UNCHANGED <<pl, constructed, budget, league, file, loaded, req, ret>>

SwapPlayers(t, player_out, player_in) ==
    /\ LET r == SwapPlayersRes(team[t], player_out, player_in) IN
       /\ team' = [team EXCEPT ![t] = r.t]
       /\ last' = Raised("swap_players", r.err)
    /\ UNCHANGED <<pl, constructed, budget, league, file, loaded, req, ret>>

Formations == {"4-4-2", "4-3-3", "3-5-2"}
FormationInputs == {"4-3-3", "5-4-1"}

SetFormation(t, formation) ==
    /\ IF formation \notin Formations
       THEN /\ last' = Raised("set_formation", "Unsupported formation.")
            /\ UNCHANGED team
       ELSE /\ team' = [team EXCEPT ![t].formation = formation]
            /\ last' = Done("set_formation")
    /\ UNCHANGED <<pl, constructed, budget, league, file, loaded, req, ret>>

\* assign_starting_eleven(players); own says the argument is the team's own
\* players list object.  The text of the second error starts with the name of
\* the first foreign player, left out here.
AssignResNoMemberCheck(tm, players, own) ==
    IF Len(players) # ElevenSize
    THEN Res(tm, "Starting eleven must contain 11 players.")
    ELSE Res([tm EXCEPT !.starting_eleven = players, !.alias = own], "")

AssignResClearsBench(tm, players, own) ==
    IF Len(players) # ElevenSize
    THEN Res(tm, "Starting eleven must contain 11 players.")
    ELSE IF \E i \in 1..Len(players) : ~InSeq(players[i], tm.players)
    THEN Res(tm, "not in team.")
    ELSE Res([tm EXCEPT !.starting_eleven = players, !.alias = own,
                        !.bench = <<>>], "")

AssignRes(tm, players, own) ==
    IF Len(players) # ElevenSize
    THEN Res(tm, "Starting eleven must contain 11 players.")
    ELSE IF \E i \in 1..Len(players) : ~InSeq(players[i], tm.players)
    THEN Res(tm, "not in team.")
    ELSE Res([tm EXCEPT !.starting_eleven = players, !.alias = own], "")

RECURSIVE Rep(_, _)
Rep(x, n) == IF n = 0 THEN <<>> ELSE Append(Rep(x, n - 1), x)

\* the lists passed to assign_starting_eleven (a list may name one Player more
\* than once): ten times p then a later q, eleven times the first Player, and
\* a list of ten
LineupInputs ==
    {Rep(pq[1], ElevenSize - 1) \o <<pq[2]>> :
         pq \in {x \in PlayerIds \X PlayerIds : x[1] < x[2]}}
        \cup {Rep(1, ElevenSize), Rep(1, ElevenSize - 1)}

AssignStartingEleven(t, players) ==
    /\ LET r == AssignRes(team[t], players, FALSE) IN
       /\ team' = [team EXCEPT ![t] = r.t]
       /\ last' = Raised("assign_starting_eleven", r.err)
    /\ UNCHANGED <<pl, constructed, budget, league, file, loaded, req, ret>>

\* team.assign_starting_eleven(team.players)
AssignOwnPlayers(t) ==
    /\ LET r == AssignRes(team[t], team[t].players, TRUE) IN
       /\ team' = [team EXCEPT ![t] = r.t]
       /\ last' = Raised("assign_starting_eleven", r.err)
    /\ UNCHANGED <<pl, constructed, budget, league, file, loaded, req, ret>>

\* update_match_result(goals_for, goals_against): the new Team
MatchUpdatedDrawAsWin(tm, goals_for, goals_against) ==
    LET u == [tm EXCEPT !.goals_scored = tm.goals_scored + goals_for,
                        !.goals_conceded = tm.goals_conceded + goals_against]
    IN  IF goals_for >= goals_against THEN [u EXCEPT !.wins = tm.wins + 1]
        ELSE [u EXCEPT !.losses = tm.losses + 1]

MatchUpdatedLossUncounted(tm, goals_for, goals_against) ==
    LET u == [tm EXCEPT !.goals_scored = tm.goals_scored + goals_for,
                        !.goals_conceded = tm.goals_conceded + goals_against]
    IN  IF goals_for > goals_against THEN [u EXCEPT !.wins = tm.wins + 1]
        ELSE IF goals_for < goals_against THEN u
        ELSE [u EXCEPT !.draws = tm.draws + 1]

MatchUpdated(tm, goals_for, goals_against) ==
    LET u == [tm EXCEPT !.goals_scored = tm.goals_scored + goals_for,
                        !.goals_conceded = tm.goals_conceded + goals_against]
    IN  IF goals_for > goals_against THEN [u EXCEPT !.wins = tm.wins + 1]
        ELSE IF goals_for < goals_against THEN [u EXCEPT !.losses = tm.losses + 1]
        ELSE [u EXCEPT !.draws = tm.draws + 1]

\* the loop of get_best_player, get_top_scorer, get_top_assistant and
\* get_most_active_player over self.players[1:], field being the attribute
\* compared and best the choice so far
RECURSIVE MaxFromLast(_, _, _)
MaxFromLast(best, ps, field) ==
    IF ps = <<>> THEN best
    ELSE IF pl[Head(ps)][field] >= pl[best][field]
    THEN MaxFromLast(Head(ps), Tail(ps), field)
    ELSE MaxFromLast(best, Tail(ps), field)

RECURSIVE MaxFrom(_, _, _)
MaxFrom(best, ps, field) ==
    IF ps = <<>> THEN best
    ELSE IF pl[Head(ps)][field] > pl[best][field]
    THEN MaxFrom(Head(ps), Tail(ps), field)
    ELSE MaxFrom(best, Tail(ps), field)

\* the returned Player; 0 stands for None
NonePlayer == 0
PlayerRet(p) == [NoRet EXCEPT !.player = p]

\* the four queries differ in the attribute only
BestBy(t, op, field) ==
    /\ ret' = IF team[t].players = <<>> THEN PlayerRet(NonePlayer)
              ELSE PlayerRet(MaxFrom(Head(team[t].players), Tail(team[t].players), field))
    /\ last' = Done(op)
    /\ UNCHANGED <<pl, constructed, team, budget, league, file, loaded, req>>

GetBestPlayer(t) == BestBy(t, "get_best_player", "overall_rating")
GetTopScorer(t) == BestBy(t, "get_top_scorer", "goals")
GetTopAssistant(t) == BestBy(t, "get_top_assistant", "assists")
GetMostActivePlayer(t) == BestBy(t, "get_most_active_player", "matches_played")

\* matches recorded so far
Played(tm) == tm.wins + tm.draws + tm.losses

UpdateMatchResult(t, goals_for, goals_against) ==
    /\ Played(team[t]) < MaxMatches
    /\ team' = [team EXCEPT ![t] = MatchUpdated(team[t], goals_for, goals_against)]
    /\ last' = Done("update_match_result")
    /\ UNCHANGED <<pl, constructed, budget, league, file, loaded, req, ret>>

----------------------------------------------------------------------------
(* Manager of team 1 *)

Managed == 1

\* team.max_players = n, as the callers of buy_player do
SetMaxPlayers(t, n) ==
    /\ team' = [team EXCEPT ![t].max_players = n]
    /\ last' = Done("set_max_players")
    /\ UNCHANGED <<pl, constructed, budget, league, file, loaded, req, ret>>

\* [p for p in xs if keep(p)]
RECURSIVE Healthy(_)
Healthy(xs) ==
    IF xs = <<>> THEN <<>>
    ELSE IF ~pl[Head(xs)].injured THEN <<Head(xs)>> \o Healthy(Tail(xs))
    ELSE Healthy(Tail(xs))

RECURSIVE Injured(_)
Injured(xs) ==
    IF xs = <<>> THEN <<>>
    ELSE IF pl[Head(xs)].injured THEN <<Head(xs)>> \o Injured(Tail(xs))
    ELSE Injured(Tail(xs))

\* bench_injured_players(): the new Team
Benched(tm) ==
    IF tm.starting_eleven = <<>> THEN tm
    ELSE [tm EXCEPT !.starting_eleven = Healthy(tm.starting_eleven),
                    !.alias = FALSE,
                    !.bench = tm.bench \o Injured(tm.starting_eleven)]

BenchInjuredPlayers ==
    /\ Len(team[Managed].bench) < MaxBench
    /\ team' = [team EXCEPT ![Managed] = Benched(team[Managed])]
    /\ last' = Done("bench_injured_players")
    /\ UNCHANGED <<pl, constructed, budget, league, file, loaded, req, ret>>

PriceInputs == {60, 120}
FreeTransfer == {0}

BuyPlayerNoBudgetCheck(p, price) ==
    /\ LET tm == team[Managed] IN
       IF InSeq(p, tm.players)
       THEN /\ last' = Raised("buy_player", "Player already in team.")
            /\ UNCHANGED <<team, budget>>
       ELSE IF tm.max_players = NoAttr
       THEN /\ last' = Raised("buy_player", "AttributeError: max_players")
            /\ UNCHANGED <<team, budget>>
       ELSE IF Len(tm.players) >= tm.max_players
       THEN /\ last' = Raised("buy_player", "Team has reached maximum size.")
            /\ UNCHANGED <<team, budget>>
       ELSE LET r == AddPlayerRes(tm, p) IN
            /\ team' = [team EXCEPT ![Managed] = r.t]
            /\ budget' = IF r.err = "" THEN budget - price ELSE budget
            /\ last' = Raised("buy_player", r.err)
    /\ UNCHANGED <<pl, constructed, league, file, loaded, req, ret>>

BuyPlayer(p, price) ==
    /\ LET tm == team[Managed] IN
       IF InSeq(p, tm.players)
       THEN /\ last' = Raised("buy_player", "Player already in team.")
            /\ UNCHANGED <<team, budget>>
       ELSE IF tm.max_players = NoAttr
       THEN /\ last' = Raised("buy_player", "AttributeError: max_players")
            /\ UNCHANGED <<team, budget>>
       ELSE IF Len(tm.players) >= tm.max_players
       THEN /\ last' = Raised("buy_player", "Team has reached maximum size.")
            /\ UNCHANGED <<team, budget>>
       ELSE IF price > budget
       THEN /\ last' = Raised("buy_player", "Insufficient budget to buy player.")
            /\ UNCHANGED <<team, budget>>
       ELSE LET r == AddPlayerRes(tm, p) IN
            /\ team' = [team EXCEPT ![Managed] = r.t]
            /\ budget' = IF r.err = "" THEN budget - price ELSE budget
            /\ last' = Raised("buy_player", r.err)
    /\ UNCHANGED <<pl, constructed, league, file, loaded, req, ret>>

SellPlayerPaysFirst(p, price) ==
    /\ budget + price <= MaxBudget
    /\ LET r == RemovePlayerRes(team[Managed], p) IN
       /\ team' = [team EXCEPT ![Managed] = r.t]
       /\ budget' = budget + price
       /\ last' = Raised("sell_player", r.err)
    /\ UNCHANGED <<pl, constructed, league, file, loaded, req, ret>>

SellPlayer(p, price) ==
    /\ budget + price <= MaxBudget
    /\ LET tm == team[Managed] IN
       IF ~InSeq(p, tm.players)
       THEN /\ last' = Raised("sell_player", "Player not found in team.")
            /\ UNCHANGED <<team, budget>>
       ELSE LET r == RemovePlayerRes(tm, p) IN
            /\ team' = [team EXCEPT ![Managed] = r.t]
            /\ budget' = IF r.err = "" THEN budget + price ELSE budget
            /\ last' = Raised("sell_player", r.err)
    /\ UNCHANGED <<pl, constructed, league, file, loaded, req, ret>>

\* sum(p.overall_rating for p in players), sum(p.stamina for p in players)
RECURSIVE SumRating(_)
SumRating(xs) ==
    IF xs = <<>> THEN 0 ELSE pl[Head(xs)].overall_rating + SumRating(Tail(xs))

RECURSIVE SumStamina(_)
SumStamina(xs) ==
    IF xs = <<>> THEN 0 ELSE pl[Head(xs)].stamina + SumStamina(Tail(xs))

\* int(strength) // 20, strength being the mean of the two sums divided by 11
\* (the float computation agrees with the integer one for all sums up to 1500)
GoalsOf(xs) == ((SumRating(xs) + SumStamina(xs)) \div (2 * ElevenSize)) \div GoalStep

\* the returned text: "<who> wins <left>-<right>!" or "Draw <left>-<right>!"
MatchRetHome(who, left, right) ==
    [NoRet EXCEPT !.who = team[Managed].name, !.left = left, !.right = right]

MatchRet(who, left, right) ==
    [NoRet EXCEPT !.who = who, !.left = left, !.right = right]

\* simulate_match(other_team) of the Manager whose team is home
SimulateMatchOf(home, other_team) ==
    /\ Played(team[home]) < MaxMatches
    /\ Played(team[other_team]) < MaxMatches
    /\ LET players_self == team[home].starting_eleven
           players_other == team[other_team].starting_eleven
           goals_self == GoalsOf(players_self)
           goals_opp == GoalsOf(players_other)
           first == [team EXCEPT ![home] =
                        MatchUpdated(team[home], goals_self, goals_opp)]
       IN  IF Len(players_self) < ElevenSize \/ Len(players_other) < ElevenSize
           THEN /\ last' = Raised("simulate_match",
                                  "Match cannot be played due to unavailable players.")
                /\ UNCHANGED <<team, ret>>
           ELSE /\ team' = [first EXCEPT ![other_team] =
                               MatchUpdated(first[other_team], goals_opp, goals_self)]
                /\ ret' = IF goals_self > goals_opp
                          THEN MatchRet(team[home].name, goals_self, goals_opp)
                          ELSE IF goals_opp > goals_self
                          THEN MatchRet(team[other_team].name, goals_opp, goals_self)
                          ELSE MatchRet("Draw", goals_self, goals_opp)
                /\ last' = Done("simulate_match")
    /\ UNCHANGED <<pl, constructed, budget, league, file, loaded, req>>

SimulateMatch(other_team) == SimulateMatchOf(Managed, other_team)

\* save_team_to_file(filename): the JSON document
PlayerData(q) ==
    [name |-> q.name, position |-> PositionName(q.position), age |-> q.age,
     rating |-> q.overall_rating, stamina |-> q.stamina, injured |-> q.injured]

RECURSIVE PlayersData(_)
PlayersData(ps) ==
    IF ps = <<>> THEN <<>>
    ELSE <<PlayerData(pl[Head(ps)])>> \o PlayersData(Tail(ps))

TeamData(tm) ==
    [written |-> TRUE, team_name |-> tm.name, players |-> PlayersData(tm.players)]

NoFile == [written |-> FALSE, team_name |-> "", players |-> <<>>]

SaveTeamToFile ==
    /\ file' = TeamData(team[Managed])
    /\ last' = Done("save_team_to_file")
    /\ UNCHANGED <<pl, constructed, team, budget, league, loaded, req, ret>>

\* load_team_from_file(filename): the Players built so far and the error that
\* stopped the loop ("" when it ran to the end).  Each Player is a new object,
\* so add_player's duplicate and retired checks pass.
LoadErr(d) ==
    IF PositionByName(d.position) = 0 THEN "KeyError"
    ELSE PlayerInitErr(d.age, d.rating)

LoadedPlayer(d) ==
    [PlayerInit(d.name, PositionByName(d.position), d.age, d.rating)
        EXCEPT !.stamina = d.stamina, !.injured = d.injured]

RECURSIVE LoadPlayers(_)
LoadPlayers(ds) ==
    IF ds = <<>> THEN [players |-> <<>>, err |-> ""]
    ELSE IF LoadErr(Head(ds)) # "" THEN [players |-> <<>>, err |-> LoadErr(Head(ds))]
    ELSE LET r == LoadPlayers(Tail(ds)) IN
         [players |-> <<LoadedPlayer(Head(ds))>> \o r.players, err |-> r.err]

NoTeam == [present |-> FALSE, name |-> "", players |-> <<>>]

LoadTeamFromFile ==
    /\ file.written
    /\ LET r == LoadPlayers(file.players) IN
       /\ loaded' = IF r.err = ""
                    THEN [present |-> TRUE, name |-> file.team_name,
                          players |-> r.players]
                    ELSE loaded
       /\ last' = Raised("load_team_from_file", r.err)
    /\ UNCHANGED <<pl, constructed, team, budget, league, file, req, ret>>

----------------------------------------------------------------------------
(* League *)

\* add_team(team); isTeam = FALSE passes an object that is no Team
AddTeam(t, isTeam) ==
    /\ Len(league) < MaxLeague
    /\ IF ~isTeam
       THEN /\ last' = Raised("add_team", "Only Team instances can be added.")
            /\ UNCHANGED league
       ELSE IF InSeq(t, league)
       THEN /\ last' = Raised("add_team", "Team already in league.")
            /\ UNCHANGED league
       ELSE /\ league' = Append(league, t)
            /\ last' = Done("add_team")
    /\ UNCHANGED <<pl, constructed, team, budget, file, loaded, req, ret>>

RemoveTeam(t) ==
    /\ IF ~InSeq(t, league)
       THEN /\ last' = Raised("remove_team", "Team not found in league.")
            /\ UNCHANGED league
       ELSE /\ league' = RemoveFirst(league, t)
            /\ last' = Done("remove_team")
    /\ UNCHANGED <<pl, constructed, team, budget, file, loaded, req, ret>>

\* list.index(x): position of the first occurrence
IndexOfLast(s, x) ==
    CHOOSE i \in 1..Len(s) : s[i] = x /\ \A j \in (i + 1)..Len(s) : s[j] # x

IndexOf(s, x) == CHOOSE i \in 1..Len(s) : s[i] = x /\ \A j \in 1..(i - 1) : s[j] # x

ReplaceTeam(old_team, new_team) ==
    /\ IF ~InSeq(old_team, league)
       THEN /\ last' = Raised("replace_team", "Old team not in league.")
            /\ UNCHANGED league
       ELSE /\ league' = [league EXCEPT ![IndexOf(league, old_team)] = new_team]
            /\ last' = Done("replace_team")
    /\ UNCHANGED <<pl, constructed, team, budget, file, loaded, req, ret>>

\* team.goals_scored - team.goals_conceded
GoalDifference(t) == team[t].goals_scored - team[t].goals_conceded

\* the loop of get_top_team over self.teams[1:], top_team being the best so far
RECURSIVE TopFromLast(_, _)
TopFromLast(top_team, ts) ==
    IF ts = <<>> THEN top_team
    ELSE IF team[Head(ts)].points > team[top_team].points
    THEN TopFromLast(Head(ts), Tail(ts))
    ELSE IF /\ team[Head(ts)].points = team[top_team].points
            /\ GoalDifference(Head(ts)) >= GoalDifference(top_team)
    THEN TopFromLast(Head(ts), Tail(ts))
    ELSE TopFromLast(top_team, Tail(ts))

RECURSIVE TopFrom(_, _)
TopFrom(top_team, ts) ==
    IF ts = <<>> THEN top_team
    ELSE IF team[Head(ts)].points > team[top_team].points
    THEN TopFrom(Head(ts), Tail(ts))
    ELSE IF /\ team[Head(ts)].points = team[top_team].points
            /\ GoalDifference(Head(ts)) > GoalDifference(top_team)
    THEN TopFrom(Head(ts), Tail(ts))
    ELSE TopFrom(top_team, Tail(ts))

\* the loop of get_bottom_team
RECURSIVE BottomFrom(_, _)
BottomFrom(bottom_team, ts) ==
    IF ts = <<>> THEN bottom_team
    ELSE IF team[Head(ts)].points < team[bottom_team].points
    THEN BottomFrom(Head(ts), Tail(ts))
    ELSE IF /\ team[Head(ts)].points = team[bottom_team].points
            /\ GoalDifference(Head(ts)) < GoalDifference(bottom_team)
    THEN BottomFrom(Head(ts), Tail(ts))
    ELSE BottomFrom(bottom_team, Tail(ts))

\* the returned Team; 0 stands for None
NoneTeam == 0
TeamRet(t) == [NoRet EXCEPT !.team = t]

\* the first loop iteration reads team.points of both Teams it compares
PointsMissing == Len(league) >= 2 /\ \E i \in 1..Len(league) : team[league[i]].points = NoAttr

GetTopTeam ==
    /\ IF league = <<>>
       THEN /\ ret' = TeamRet(NoneTeam)
            /\ last' = Done("get_top_team")
       ELSE IF PointsMissing
       THEN /\ last' = Raised("get_top_team", "AttributeError: points")
            /\ UNCHANGED ret
       ELSE /\ ret' = TeamRet(TopFrom(Head(league), Tail(league)))
            /\ last' = Done("get_top_team")
    /\ UNCHANGED <<pl, constructed, team, budget, league, file, loaded, req>>

GetBottomTeam ==
    /\ IF league = <<>>
       THEN /\ ret' = TeamRet(NoneTeam)
            /\ last' = Done("get_bottom_team")
       ELSE IF PointsMissing
       THEN /\ last' = Raised("get_bottom_team", "AttributeError: points")
            /\ UNCHANGED ret
       ELSE /\ ret' = TeamRet(BottomFrom(Head(league), Tail(league)))
            /\ last' = Done("get_bottom_team")
    /\ UNCHANGED <<pl, constructed, team, budget, league, file, loaded, req>>

\* get_team_by_name(name): the first listed Team of that name, or None
RECURSIVE LastNamed(_, _)
LastNamed(ts, name) ==
    IF ts = <<>> THEN NoneTeam
    ELSE IF LastNamed(Tail(ts), name) # NoneTeam THEN LastNamed(Tail(ts), name)
    ELSE IF team[Head(ts)].name = name THEN Head(ts)
    ELSE NoneTeam

RECURSIVE FirstNamed(_, _)
FirstNamed(ts, name) ==
    IF ts = <<>> THEN NoneTeam
    ELSE IF team[Head(ts)].name = name THEN Head(ts)
    ELSE FirstNamed(Tail(ts), name)

GetTeamByName(name) ==
    /\ ret' = TeamRet(FirstNamed(league, name))
    /\ last' = Done("get_team_by_name")
    /\ UNCHANGED <<pl, constructed, team, budget, league, file, loaded, req>>

\* any(team.name == name for team in self.teams)
HasTeam(name) ==
    /\ ret' = [NoRet EXCEPT !.flag = \E i \in 1..Len(league) : team[league[i]].name = name]
    /\ last' = Done("has_team")
    /\ UNCHANGED <<pl, constructed, team, budget, league, file, loaded, req>>

\* the dictionary get_team_stats builds
StatsOf(tm) ==
    [points |-> tm.points, wins |-> tm.wins, draws |-> tm.draws,
     losses |-> tm.losses, goals_scored |-> tm.goals_scored,
     goals_conceded |-> tm.goals_conceded]

GetTeamStats(name) ==
    /\ LET t == FirstNamed(league, name) IN
       IF t = NoneTeam
       THEN /\ last' = Raised("get_team_stats", "Team not found.")
            /\ UNCHANGED ret
       ELSE IF team[t].points = NoAttr
       THEN /\ last' = Raised("get_team_stats", "AttributeError: points")
            /\ UNCHANGED ret
       ELSE /\ ret' = [NoRet EXCEPT !.stats = StatsOf(team[t])]
            /\ last' = Done("get_team_stats")
    /\ UNCHANGED <<pl, constructed, team, budget, league, file, loaded, req>>

----------------------------------------------------------------------------
(* Specifications *)

NoReq == [age |-> 0, rating |-> 0]
Start == [op |-> "init", err |-> ""]

\* Roster: a pool of constructed Players, one managed Team
Init ==
    /\ pl = [p \in PlayerIds |-> PoolPlayer(p)]
    /\ constructed = PlayerIds
    /\ team = [t \in TeamIds |-> TeamInit(TeamName(t))]
    /\ budget = StartBudget
    /\ league = <<>>
    /\ file = NoFile
    /\ loaded = NoTeam
    /\ req = NoReq
    /\ ret = NoRet
    /\ last = Start

Next ==
    \/ \E p \in PlayerIds : AddPlayer(Managed, p)
    \/ \E p \in PlayerIds : RemovePlayer(Managed, p)
    \/ \E p \in PlayerIds, q \in PlayerIds : SwapPlayers(Managed, p, q)
    \/ \E f \in FormationInputs : SetFormation(Managed, f)
    \/ \E l \in LineupInputs : AssignStartingEleven(Managed, l)
    \/ AssignOwnPlayers(Managed)
    \/ \E n \in 1..NumPlayers : SetMaxPlayers(Managed, n)
    \/ \E p \in PlayerIds, c \in PriceInputs : BuyPlayer(p, c)
    \/ \E p \in PlayerIds, c \in PriceInputs : SellPlayer(p, c)
    \/ \E p \in PlayerIds : CheckRetirement(p)

Spec == Init /\ [][Next]_vars

\* Lineup: the same pool and Team, with injuries and the bench
LineupNext ==
    \/ \E p \in PlayerIds : AddPlayer(Managed, p)
    \/ \E p \in PlayerIds : RemovePlayer(Managed, p)
    \/ \E p \in PlayerIds, q \in PlayerIds : SwapPlayers(Managed, p, q)
    \/ \E p \in PlayerIds, c \in FreeTransfer : SellPlayer(p, c)
    \/ \E l \in LineupInputs : AssignStartingEleven(Managed, l)
    \/ AssignOwnPlayers(Managed)
    \/ BenchInjuredPlayers
    \/ \E p \in PlayerIds : Injure(p)
    \/ \E p \in PlayerIds : RecoverFromInjury(p)

LineupSpec == Init /\ [][LineupNext]_vars

\* Bench: lineups are assigned and injured starters benched, with no Player
\* leaving the Team
BenchNext ==
    \/ \E p \in PlayerIds : AddPlayer(Managed, p)
    \/ \E l \in LineupInputs : AssignStartingEleven(Managed, l)
    \/ AssignOwnPlayers(Managed)
    \/ BenchInjuredPlayers
    \/ \E p \in PlayerIds : Injure(p)
    \/ \E p \in PlayerIds : RecoverFromInjury(p)

BenchSpec == Init /\ [][BenchNext]_vars

\* League: the three list operations over the pool of Teams
LeagueNext ==
    \/ \E t \in TeamIds, isTeam \in BOOLEAN : AddTeam(t, isTeam)
    \/ \E t \in TeamIds : RemoveTeam(t)
    \/ \E o \in TeamIds, n \in TeamIds : ReplaceTeam(o, n)
    \/ GetTopTeam
    \/ GetBottomTeam

LeagueSpec == Init /\ [][LeagueNext]_vars

\* Ranking: a league of Teams that have their points assigned and have played
\* no match or one, queried for its top and bottom Team
PointsInputs == {9, 18}
ResultInputs == {<<1, 0>>, <<0, 1>>}

RankedTeams ==
    {TeamInit("Alpha")} \cup
        {MatchUpdated(TeamInit("Alpha"), r[1], r[2]) : r \in ResultInputs}

\* the lists of n distinct Teams
RECURSIVE TeamLists(_)
TeamLists(n) ==
    IF n = 0 THEN {<<>>}
    ELSE {Append(st[1], st[2]) :
             st \in {x \in TeamLists(n - 1) \X TeamIds : ~InSeq(x[2], x[1])}}

RankInit ==
    /\ pl = [p \in PlayerIds |-> PoolPlayer(p)]
    /\ constructed = PlayerIds
    /\ \E tms \in [TeamIds -> RankedTeams], pts \in [TeamIds -> PointsInputs] :
          team = [t \in TeamIds |->
                    [tms[t] EXCEPT !.name = TeamName(t), !.points = pts[t]]]
    /\ budget = StartBudget
    /\ \E n \in 0..MaxLeague : league \in TeamLists(n)
    /\ file = NoFile
    /\ loaded = NoTeam
    /\ req = NoReq
    /\ ret = NoRet
    /\ last = Start

RankNext ==
    \/ GetTopTeam
    \/ GetBottomTeam

RankSpec == RankInit /\ [][RankNext]_vars

\* Lookup: the same leagues, asked for Teams by name (two Teams of the pool
\* share a name, and one name differs from it in case only)
NameInputs == {"Alpha", "Gamma", "alpha"}

LookupNext ==
    \/ \E n \in NameInputs : GetTeamByName(n)
    \/ \E n \in NameInputs : HasTeam(n)
    \/ \E n \in NameInputs : GetTeamStats(n)

\* every Team either new or after one win, its points assigned by the caller
LookupInit ==
    /\ pl = [p \in PlayerIds |-> PoolPlayer(p)]
    /\ constructed = PlayerIds
    /\ \E won \in SUBSET TeamIds :
          team = [t \in TeamIds |->
                    IF t \in won
                    THEN [MatchUpdated(TeamInit(TeamName(t)), 1, 0) EXCEPT !.points = 3]
                    ELSE [TeamInit(TeamName(t)) EXCEPT !.points = 0]]
    /\ budget = StartBudget
    /\ \E n \in 0..MaxLeague : league \in TeamLists(n)
    /\ file = NoFile
    /\ loaded = NoTeam
    /\ req = NoReq
    /\ ret = NoRet
    /\ last = Start

LookupSpec == LookupInit /\ [][LookupNext]_vars

\* Match: two Teams holding the pool Players, each with no lineup or a valid
\* one, record results and play each other
Opponent == 2
GoalInputs == {<<1, 0>>, <<0, 1>>, <<1, 1>>}

RECURSIVE UpTo(_)
UpTo(n) == IF n = 0 THEN <<>> ELSE Append(UpTo(n - 1), n)

Squads ==
    {[TeamInit("Alpha") EXCEPT !.players = UpTo(NumPlayers)]} \cup
        {[TeamInit("Alpha") EXCEPT !.players = UpTo(NumPlayers),
                                   !.starting_eleven = l] :
            l \in {x \in LineupInputs : Len(x) = ElevenSize}}

MatchInit ==
    /\ pl = [p \in PlayerIds |-> PoolPlayer(p)]
    /\ constructed = PlayerIds
    /\ \E a \in Squads, b \in Squads :
          team = [t \in TeamIds |->
                    IF t = Managed THEN [a EXCEPT !.name = TeamName(t)]
                    ELSE IF t = Opponent THEN [b EXCEPT !.name = TeamName(t)]
                    ELSE TeamInit(TeamName(t))]
    /\ budget = StartBudget
    /\ league = <<>>
    /\ file = NoFile
    /\ loaded = NoTeam
    /\ req = NoReq
    /\ ret = NoRet
    /\ last = Start

MatchNext ==
    \/ \E t \in {Managed, Opponent}, g \in GoalInputs : UpdateMatchResult(t, g[1], g[2])
    \/ \E o \in {Managed, Opponent} : SimulateMatch(o)

MatchSpec == MatchInit /\ [][MatchNext]_vars

\* Fixtures: every Team has a Manager and fields eleven times the first Player
\* or ten times the first and once the second, the last Team possibly nobody,
\* and the Managers play matches among these Teams
Unfielded == NumTeams

FixtureInit ==
    /\ pl = [p \in PlayerIds |-> PoolPlayer(p)]
    /\ constructed = PlayerIds
    /\ \E strong \in SUBSET (TeamIds \ {Unfielded}), fielded \in BOOLEAN :
          team = [t \in TeamIds |->
                    [TeamInit(TeamName(t)) EXCEPT
                        !.players = UpTo(NumPlayers),
                        !.starting_eleven =
                            IF t = Unfielded /\ ~fielded THEN <<>>
                            ELSE IF t \in strong THEN Rep(1, ElevenSize)
                            ELSE Rep(1, ElevenSize - 1) \o <<2>>]]
    /\ budget = StartBudget
    /\ league = <<>>
    /\ file = NoFile
    /\ loaded = NoTeam
    /\ req = NoReq
    /\ ret = NoRet
    /\ last = Start

FixtureNext == \E h \in TeamIds, o \in TeamIds : SimulateMatchOf(h, o)

FixtureSpec == FixtureInit /\ [][FixtureNext]_vars

\* Squad: the managed Team holds eleven Players, one more Player is at hand,
\* and the opponent fields that Player eleven times.  (The Players' names play
\* no part and are all "Player".)
SquadIds == 1..SquadSize
Newcomer == SquadSize

\* players[:11]
FirstEleven(ps) == SubSeq(ps, 1, Min(ElevenSize, Len(ps)))

SquadInit ==
    /\ pl = [p \in SquadIds |-> PlayerInit("Player", 2, 28, 70 + ((p - 1) % ElevenSize))]
    /\ constructed = SquadIds
    /\ team = [t \in TeamIds |->
                 IF t = Managed
                 THEN [TeamInit(TeamName(t)) EXCEPT !.players = UpTo(ElevenSize)]
                 ELSE IF t = Opponent
                 THEN [TeamInit(TeamName(t)) EXCEPT
                          !.players = <<Newcomer>>,
                          !.starting_eleven = Rep(Newcomer, ElevenSize)]
                 ELSE TeamInit(TeamName(t))]
    /\ budget = StartBudget
    /\ league = <<>>
    /\ file = NoFile
    /\ loaded = NoTeam
    /\ req = NoReq
    /\ ret = NoRet
    /\ last = Start

SquadNext ==
    \/ AssignOwnPlayers(Managed)
    \/ \E l \in {FirstEleven(team[Managed].players)} : AssignStartingEleven(Managed, l)
    \/ AddPlayer(Managed, Newcomer)
    \/ \E p \in {1, Newcomer} : RemovePlayer(Managed, p)
    \/ \E p \in {1, Newcomer} : Injure(p)
    \/ BenchInjuredPlayers
    \/ SimulateMatch(Opponent)

SquadSpec == SquadInit /\ [][SquadNext]_vars

\* Statistics: a Team holding the first Players of a pool, each with one of
\* two ratings and no match or one recorded, queried for its best Players
ScorerIds == 1..NumScorers
ScorerRatings == {70, 85}
RecordInputs == {<<1, 0>>, <<0, 1>>}

Scorers(p) ==
    UNION {{PlayerInit(PoolName(p), PoolPos(p), 25, r)} \cup
              {Recorded(PlayerInit(PoolName(p), PoolPos(p), 25, r), g[1], g[2]) :
                  g \in RecordInputs} :
           r \in ScorerRatings}

StatsInit ==
    /\ \E f \in [ScorerIds -> UNION {Scorers(p) : p \in ScorerIds}] :
          /\ \A p \in ScorerIds : f[p] \in Scorers(p)
          /\ pl = f
    /\ constructed = ScorerIds
    /\ \E k \in 0..NumScorers :
          team = [t \in TeamIds |->
                    IF t = Managed
                    THEN [TeamInit(TeamName(t)) EXCEPT !.players = UpTo(k)]
                    ELSE TeamInit(TeamName(t))]
    /\ budget = StartBudget
    /\ league = <<>>
    /\ file = NoFile
    /\ loaded = NoTeam
    /\ req = NoReq
    /\ ret = NoRet
    /\ last = Start

StatsNext ==
    \/ GetBestPlayer(Managed)
    \/ GetTopScorer(Managed)
    \/ GetTopAssistant(Managed)
    \/ GetMostActivePlayer(Managed)

StatsSpec == StatsInit /\ [][StatsNext]_vars

\* train() of a pool player, explored for MaxTrains sessions from full stamina
PoolTrain(p) ==
    /\ pl[p].stamina > FullStamina - TrainCost * MaxTrains
    /\ Train(p)

\* Persistence: the managed Team's Players age, train and get injured, and the
\* Team is saved and loaded
PersistNext ==
    \/ \E p \in PlayerIds : AddPlayer(Managed, p)
    \/ \E p \in PlayerIds : PoolAgeUp(p)
    \/ \E p \in PlayerIds : PoolTrain(p)
    \/ \E p \in PlayerIds : Injure(p)
    \/ \E p \in PlayerIds : CheckRetirement(p)
    \/ SaveTeamToFile
    \/ LoadTeamFromFile

PersistSpec == Init /\ [][PersistNext]_vars

\* One Player, constructed with arguments drawn from the input sets
AgeInputs    == {29, 39}
RatingInputs == {1, 99}

OneInit ==
    /\ \E a \in AgeInputs, r \in RatingInputs :
          pl = [p \in PlayerIds |-> IF p = 1 THEN PlayerInit("P1", 4, a, r) ELSE Blank]
    /\ constructed = {1}
    /\ team = [t \in TeamIds |-> TeamInit(TeamName(t))]
    /\ budget = StartBudget
    /\ league = <<>>
    /\ file = NoFile
    /\ loaded = NoTeam
    /\ req = NoReq
    /\ ret = NoRet
    /\ last = Start

MoraleInputs == {-100, 40, 100}

\* Training: train, rest and morale changes of the one Player
TrainingNext ==
    \/ Train(1)
    \/ Rest(1)
    \/ \E a \in MoraleInputs : ChangeMorale(1, a, TRUE)
    \/ ChangeMorale(1, 0, FALSE)

TrainingSpec == OneInit /\ [][TrainingNext]_vars

\* Aging: train and age_up of the one Player
AgingNext ==
    \/ Train(1)
    \/ AgeUp(1)

AgingSpec == OneInit /\ [][AgingNext]_vars

\* Career: cards, captaincy, contract and loans of the one Player
CareerNext ==
    \/ \E k \in CardTypes : ReceiveCard(1, k)
    \/ ResetCards(1)
    \/ PromoteToCaptain(1)
    \/ DemoteFromCaptain(1)
    \/ \E y \in 0..MaxYears : RenewContract(1, y)
    \/ DecrementContract(1)
    \/ \E c \in Clubs, d \in 0..MaxLoan : LoanTo(1, c, d)
    \/ ReturnFromLoan(1)
    \/ ReduceLoanDuration(1)

CareerSpec == OneInit /\ [][CareerNext]_vars

\* Misuse: the Player operations that can raise, with arguments on both sides
\* of each check
MatchInputs == {<<1, 1>>, <<-1, 0>>, <<0, -1>>}
PositionInputs == {<<3, TRUE>>, <<1, FALSE>>}

MisuseNext ==
    \/ Injure(1)
    \/ RecoverFromInjury(1)
    \/ \E a \in PositionInputs : ChangePosition(1, a[1], a[2])
    \/ \E a \in MatchInputs : RecordMatch(1, a[1], a[2])
    \/ \E k \in CardTypes : ReceiveCard(1, k)
    \/ \E y \in 0..MaxYears : RenewContract(1, y)
    \/ \E c \in Clubs, d \in 0..MaxLoan : LoanTo(1, c, d)
    \/ ReturnFromLoan(1)

MisuseSpec == OneInit /\ [][MisuseNext]_vars

\* Retirement: every Player operation on the pool Player who turns forty
Veteran == 2

\* train() of the veteran, explored for MaxTrains gained rating points
VeteranTrain(p) ==
    /\ pl[p].overall_rating < PoolRating(p) + MaxTrains
    /\ Train(p)

RetireNext ==
    \/ CheckRetirement(Veteran)
    \/ PoolAgeUp(Veteran)
    \/ VeteranTrain(Veteran)
    \/ Rest(Veteran)
    \/ Injure(Veteran)
    \/ RecoverFromInjury(Veteran)
    \/ ChangePosition(Veteran, 3, TRUE)
    \/ ChangeMorale(Veteran, -100, TRUE)
    \/ PromoteToCaptain(Veteran)
    \/ DemoteFromCaptain(Veteran)
    \/ ReceiveCard(Veteran, "red")
    \/ ResetCards(Veteran)
    \/ RenewContract(Veteran, 1)
    \/ DecrementContract(Veteran)
    \/ LoanTo(Veteran, "Ajax", 1)
    \/ ReturnFromLoan(Veteran)
    \/ ReduceLoanDuration(Veteran)

RetireSpec == Init /\ [][RetireNext]_vars

\* Construction: Player(...) with arguments around the accepted ranges
AgeArgs    == (MinAge - 2)..(MaxPlayerAge + 2)
RatingArgs == (MinRating - 2)..(MaxRating + 2)

NoneInit ==
    /\ pl = [p \in PlayerIds |-> Blank]
    /\ constructed = {}
    /\ team = [t \in TeamIds |-> TeamInit(TeamName(t))]
    /\ budget = StartBudget
    /\ league = <<>>
    /\ file = NoFile
    /\ loaded = NoTeam
    /\ req = NoReq
    /\ ret = NoRet
    /\ last = Start

ConstructNext == \E a \in AgeArgs, r \in RatingArgs : Construct(1, a, r)

ConstructSpec == NoneInit /\ [][ConstructNext]_vars

----------------------------------------------------------------------------
(* Properties *)

Roster == team[Managed].players
Lineup == team[Managed].starting_eleven

TeamOps ==
    {"add_player", "remove_player", "set_formation", "assign_starting_eleven",
     "swap_players"}

\* C1: a Team operation that ends with an error leaves every Team field as it
\* was before the call
C1_FailedTeamOpChangesNothing ==
    [][(last'.op \in TeamOps /\ last'.err # "") => team' = team]_vars

\* the lineup is empty or has exactly 11 members, each in the roster
LineupSound(tm) ==
    \/ tm.starting_eleven = <<>>
    \/ /\ Len(tm.starting_eleven) = 11
       /\ \A i \in 1..Len(tm.starting_eleven) :
             InSeq(tm.starting_eleven[i], tm.players)

NoRepeat(s) == \A i \in 1..Len(s), j \in 1..Len(s) : i # j => s[i] # s[j]

\* C3: the league's teams list never contains a Team twice
C3_NoDuplicateTeams == NoRepeat(league)

\* C4: a Team's players list never contains a Player twice, and add_player of
\* a Player already present fails and leaves the Team as it was
C4_NoDuplicatePlayers ==
    /\ [](\A t \in TeamIds : NoRepeat(team[t].players))
    /\ [][\A p \in PlayerIds :
            (AddPlayer(Managed, p) /\ InSeq(p, Roster))
                => (last'.err = "Player already in team." /\ team' = team)]_vars

C4_Witness ==
    /\ last = Raised("add_player", "Player already in team.")
    /\ Len(Roster) = 2

\* the Player fields load_team_from_file restores, and the defaults of the rest
SameSavedFields(a, b) ==
    /\ a.name = b.name /\ a.position = b.position /\ a.age = b.age
    /\ a.overall_rating = b.overall_rating /\ a.stamina = b.stamina
    /\ a.injured = b.injured

OtherFieldsDefault(a) ==
    /\ ~a.is_captain /\ a.goals = 0 /\ a.assists = 0 /\ a.matches_played = 0
    /\ a.yellow_cards = 0 /\ a.red_cards = 0 /\ ~a.suspended
    /\ a.contract_years_left = 3 /\ a.morale = 70 /\ ~a.retired
    /\ ~a.on_loan /\ a.loaned_to = NoClub /\ a.loan_duration = 0

\* C5: loading the file saved from the Team as it is succeeds and yields the
\* same name and the same Players in the same order, equal in the saved
\* fields and at the construction defaults in the others
C5_SaveLoadRoundTrip ==
    [][(LoadTeamFromFile /\ file = TeamData(team[Managed]))
         => /\ last'.err = ""
            /\ loaded'.present
            /\ loaded'.name = team[Managed].name
            /\ Len(loaded'.players) = Len(Roster)
            /\ \A i \in 1..Len(Roster) :
                  i <= Len(loaded'.players) =>
                    /\ SameSavedFields(loaded'.players[i], pl[Roster[i]])
                    /\ OtherFieldsDefault(loaded'.players[i])]_vars

\* C6: swap_players with player_out not in the roster fails and leaves the
\* players list as it was, whatever player_in is
C6_SwapAbsentOutFails ==
    [][\A o \in PlayerIds, i \in PlayerIds :
          (SwapPlayers(Managed, o, i) /\ ~InSeq(o, Roster))
             => /\ last'.err # ""
                /\ team'[Managed].players = Roster]_vars

C6_Witness ==
    /\ last = Raised("swap_players", "Player to remove is not in the team.")
    /\ Len(Roster) = 1

\* C7: after any sequence of train, rest and change_morale, morale and stamina
\* are within 0..100
C7_MoraleStaminaInRange ==
    /\ pl[1].morale \in 0..100
    /\ pl[1].stamina \in 0..100

C7_Witness ==
    /\ pl[1].stamina = 0
    /\ pl[1].morale = 100
    /\ last = Done("change_morale")

\* C8: overall_rating stays within 0..100 under train and age_up; train raises
\* it by 1 capped at 100 and lowers stamina by 10 floored at 0; age_up lowers
\* it by 1 floored at 0 only when the resulting age exceeds 30
C8_RatingInRange ==
    /\ [](pl[1].overall_rating \in 0..100)
    /\ [][/\ Train(1) =>
              /\ pl'[1].overall_rating =
                    (IF pl[1].overall_rating >= 100 THEN 100
                     ELSE pl[1].overall_rating + 1)
              /\ pl'[1].stamina =
                    (IF pl[1].stamina <= 10 THEN 0 ELSE pl[1].stamina - 10)
          /\ AgeUp(1) =>
              /\ pl'[1].age = pl[1].age + 1
              /\ pl'[1].overall_rating =
                    (IF pl[1].age + 1 > 30 /\ pl[1].overall_rating > 0
                     THEN pl[1].overall_rating - 1
                     ELSE pl[1].overall_rating)]_vars

C8_Witness ==
    /\ pl[1].overall_rating = 0
    /\ pl[1].age = 41
    /\ pl[1].stamina = 100
    /\ last = Done("age_up")

\* C9: Player(...) succeeds exactly when age is in 15..50 and rating in 0..100,
\* and the constructed Player has stamina 100, morale 70, three contract years,
\* zero counters, cleared flags and no loan
C9_ConstructionValidated ==
    last.op = "Player" =>
        /\ (last.err = "") <=> (req.age \in 15..50 /\ req.rating \in 0..100)
        /\ (last.err = "") <=> (1 \in constructed)
        /\ (1 \in constructed) =>
              /\ pl[1].age = req.age
              /\ pl[1].overall_rating = req.rating
              /\ pl[1].stamina = 100
              /\ ~pl[1].injured
              /\ OtherFieldsDefault(pl[1])

C9_Witness ==
    /\ last = Done("Player")
    /\ req = [age |-> 50, rating |-> 0]
    /\ 1 \in constructed

\* C10: a yellow card for a Player holding one yellow clears the yellows, adds
\* a red and suspends; a first yellow only counts; so yellow_cards is always 0
\* or 1
C10_SecondYellowIsRed ==
    /\ [](pl[1].yellow_cards \in {0, 1})
    /\ [][ReceiveCard(1, "yellow") =>
            IF pl[1].yellow_cards = 1
            THEN /\ pl'[1].yellow_cards = 0
                 /\ pl'[1].red_cards = pl[1].red_cards + 1
                 /\ pl'[1].suspended
            ELSE /\ pl'[1].yellow_cards = 1
                 /\ pl'[1].red_cards = pl[1].red_cards
                 /\ pl'[1].suspended = pl[1].suspended]_vars

C10_Witness ==
    /\ pl[1].yellow_cards = 0
    /\ pl[1].red_cards = 1
    /\ pl[1].suspended
    /\ last = Done("receive_card")

\* C11: a successful loan_to(club, d) leaves the Player on loan at club with d
\* cycles left; a Player on loan always has at least one cycle left;
\* reduce_loan_duration of a Player on loan with more than one cycle left takes
\* one cycle and keeps the loan, with exactly one cycle left it returns the
\* Player (on_loan false, loaned_to none, loan_duration 0); of a Player not on
\* loan it changes nothing
C11_LoanEndsAtDthReduction ==
    /\ [](pl[1].on_loan => pl[1].loan_duration >= 1)
    /\ [][\A c \in Clubs, d \in 1..MaxLoan :
            (LoanTo(1, c, d) /\ ~pl[1].on_loan)
               => /\ last'.err = ""
                  /\ pl'[1].on_loan
                  /\ pl'[1].loaned_to = c
                  /\ pl'[1].loan_duration = d]_vars
    /\ [][ReduceLoanDuration(1) =>
            IF ~pl[1].on_loan THEN pl' = pl
            ELSE IF pl[1].loan_duration > 1
            THEN /\ pl'[1].on_loan
                 /\ pl'[1].loaned_to = pl[1].loaned_to
                 /\ pl'[1].loan_duration = pl[1].loan_duration - 1
            ELSE /\ ~pl'[1].on_loan
                 /\ pl'[1].loaned_to = NoClub
                 /\ pl'[1].loan_duration = 0]_vars

C11_Witness ==
    /\ last = Done("reduce_loan_duration")
    /\ pl[1].on_loan
    /\ pl[1].loaned_to = "Ajax"
    /\ pl[1].loan_duration = MaxLoan - 1

\* C12: assign_starting_eleven(list) fails and leaves the Team as it was when
\* the list has not exactly 11 entries or names a Player outside players;
\* otherwise it succeeds, starting_eleven is that list and bench is as before
C12_AssignValidatesList ==
    [][/\ \A l \in LineupInputs :
            AssignStartingEleven(Managed, l) =>
               IF Len(l) # 11 \/ \E i \in 1..Len(l) : ~InSeq(l[i], Roster)
               THEN /\ last'.err # ""
                    /\ team' = team
               ELSE /\ last'.err = ""
                    /\ team'[Managed].starting_eleven = l
                    /\ team'[Managed].bench = team[Managed].bench
                    /\ team'[Managed].players = Roster
       /\ AssignOwnPlayers(Managed) =>
               IF Len(Roster) # 11
               THEN /\ last'.err # ""
                    /\ team' = team
               ELSE /\ last'.err = ""
                    /\ team'[Managed].starting_eleven = Roster
                    /\ team'[Managed].bench = team[Managed].bench]_vars

C12_Witness ==
    /\ last = Done("assign_starting_eleven")
    /\ Len(Lineup) = 11
    /\ Len(team[Managed].bench) = 1

\* a's (points, goal difference) pair is lexicographically greater than b's
Above(a, b) ==
    \/ team[a].points > team[b].points
    \/ /\ team[a].points = team[b].points
       /\ GoalDifference(a) > GoalDifference(b)

Ranked == \A i \in 1..Len(league) : team[league[i]].points # NoAttr

C14_OneResultPerMatch ==
    [][/\ \A t \in {Managed, Opponent}, g \in GoalInputs :
            UpdateMatchResult(t, g[1], g[2]) =>
               /\ team'[t].goals_scored = team[t].goals_scored + g[1]
               /\ team'[t].goals_conceded = team[t].goals_conceded + g[2]
               /\ team'[t].wins = team[t].wins + (IF g[1] > g[2] THEN 1 ELSE 0)
               /\ team'[t].losses = team[t].losses + (IF g[1] < g[2] THEN 1 ELSE 0)
               /\ team'[t].draws = team[t].draws + (IF g[1] = g[2] THEN 1 ELSE 0)
               /\ Played(team'[t]) = Played(team[t]) + 1
               /\ \A u \in TeamIds \ {t} : team'[u] = team[u]
       /\ \A o \in {Managed, Opponent} :
            SimulateMatch(o) =>
               IF last'.err # "" THEN team' = team
               ELSE /\ Played(team'[Managed]) =
                          Played(team[Managed]) + (IF o = Managed THEN 2 ELSE 1)
                    /\ Played(team'[o]) =
                          Played(team[o]) + (IF o = Managed THEN 2 ELSE 1)]_vars

C14_Witness ==
    /\ last = Done("update_match_result")
    /\ team[Managed].wins = 1
    /\ team[Managed].draws = 1
    /\ team[Managed].losses = 0
    /\ team[Managed].goals_scored = 2
    /\ team[Managed].goals_conceded = 1

\* C15: a successful simulate_match against another Team adds to each Team's
\* goals_scored what it adds to the other's goals_conceded, gives one Team a
\* win exactly when it gives the other a loss, gives both a draw when the
\* goals are equal, records one result per Team, and returns the name of the
\* Team with more goals, or Draw
C15_MatchUpdatesBothSides ==
    [][(SimulateMatch(Opponent) /\ last'.err = "") =>
          LET mine   == team[Managed]
              mine2  == team'[Managed]
              other  == team[Opponent]
              other2 == team'[Opponent]
              scored   == mine2.goals_scored - mine.goals_scored
              conceded == mine2.goals_conceded - mine.goals_conceded
          IN  /\ other2.goals_conceded - other.goals_conceded = scored
              /\ other2.goals_scored - other.goals_scored = conceded
              /\ scored >= 0 /\ conceded >= 0
              /\ (mine2.wins = mine.wins + 1) <=> (other2.losses = other.losses + 1)
              /\ (mine2.losses = mine.losses + 1) <=> (other2.wins = other.wins + 1)
              /\ (mine2.wins = mine.wins + 1) <=> (scored > conceded)
              /\ (mine2.losses = mine.losses + 1) <=> (scored < conceded)
              /\ (scored = conceded) <=>
                    (mine2.draws = mine.draws + 1 /\ other2.draws = other.draws + 1)
              /\ Played(mine2) = Played(mine) + 1
              /\ Played(other2) = Played(other) + 1
              /\ ret'.who = (IF scored > conceded THEN mine.name
                             ELSE IF scored < conceded THEN other.name
                             ELSE "Draw")]_vars

C15_Witness ==
    /\ last = Done("simulate_match")
    /\ ret.who = "Beta"
    /\ ret.left > ret.right
    /\ team[Opponent].wins = 1
    /\ team[Managed].losses = 1
    /\ team[Opponent].goals_scored = team[Managed].goals_conceded

\* C16: simulate_match fails and changes no Team when either starting_eleven
\* has fewer than 11 members; and once bench_injured_players has moved a
\* starter to the bench, a starting_eleven of fewer than 11 is what is left, so
\* that simulate_match fails
C16_BenchingStopsTheMatch ==
    [][/\ (/\ SimulateMatch(Opponent)
           /\ \/ Len(team[Managed].starting_eleven) < 11
              \/ Len(team[Opponent].starting_eleven) < 11)
            => (last'.err # "" /\ team' = team)
       /\ (/\ BenchInjuredPlayers
           /\ Len(team'[Managed].bench) > Len(team[Managed].bench))
            => Len(team'[Managed].starting_eleven) < 11]_vars

\* C17: buy_player(player, price) succeeds exactly when the player is not in
\* the roster, the roster is shorter than max_players, price <= budget and the
\* player is not retired; then the player is appended to the roster and budget
\* goes down by price; otherwise the call fails and roster and budget are as
\* before
C17_BuyChecksThenPays ==
    [][\A p \in PlayerIds, c \in PriceInputs :
          BuyPlayer(p, c) =>
             IF /\ ~InSeq(p, Roster)
                /\ team[Managed].max_players # NoAttr
                /\ Len(Roster) < team[Managed].max_players
                /\ c <= budget
                /\ ~pl[p].retired
             THEN /\ last'.err = ""
                  /\ team'[Managed].players = Append(Roster, p)
                  /\ budget' = budget - c
             ELSE /\ last'.err # ""
                  /\ team'[Managed].players = Roster
                  /\ budget' = budget]_vars

C17_Witness ==
    /\ last = Done("buy_player")
    /\ budget = StartBudget - 60
    /\ Len(Roster) = 2
    /\ team[Managed].max_players = 2

\* C18: budget is never negative; a successful buy_player lowers it by the
\* price, a successful sell_player raises it by the price, and no other call
\* and no failed call changes it; sell_player of a Player not in the roster
\* fails and leaves Team and budget as they were
C18_BudgetIsTheBalance ==
    /\ [](budget >= 0)
    /\ [][/\ \A p \in PlayerIds, c \in PriceInputs :
               /\ BuyPlayer(p, c) =>
                     budget' = budget - (IF last'.err = "" THEN c ELSE 0)
               /\ SellPlayer(p, c) =>
                     /\ budget' = budget + (IF last'.err = "" THEN c ELSE 0)
                     /\ ~InSeq(p, Roster) =>
                           (last'.err # "" /\ team' = team /\ budget' = budget)
          /\ (last'.op \notin {"buy_player", "sell_player"} => budget' = budget)]_vars

C18_Witness ==
    /\ last = Done("sell_player")
    /\ budget = StartBudget - 60 + 120
    /\ Len(Roster) = 0

\* C19: no Player is in both the starting_eleven and the bench of the Team
C19_LineupAndBenchDisjoint ==
    \A p \in PlayerIds : ~(InSeq(p, Lineup) /\ InSeq(p, team[Managed].bench))

\* C20: no call puts into a Team's players a Player who is retired when the
\* call is made, and add_player of a retired Player fails and leaves the Team
\* as it was
C20_NoRetiredPlayerJoins ==
    [][/\ \A t \in TeamIds, p \in PlayerIds :
            (~InSeq(p, team[t].players) /\ InSeq(p, team'[t].players))
               => ~pl[p].retired
       /\ \A p \in PlayerIds :
            (AddPlayer(Managed, p) /\ pl[p].retired)
               => (last'.err # "" /\ team' = team)]_vars

C20_Witness ==
    /\ last = Raised("add_player", "Cannot add retired player.")
    /\ pl[1].retired
    /\ Roster = <<2>>

\* C21: replace_team(old, new) with old listed puts new at the first index
\* holding old and leaves the length of the list and the Team at every other
\* index as they were; with old not listed it fails and the list is unchanged
C21_ReplaceKeepsTheRest ==
    [][\A o \in TeamIds, n \in TeamIds :
          ReplaceTeam(o, n) =>
             IF InSeq(o, league)
             THEN /\ last'.err = ""
                  /\ Len(league') = Len(league)
                  /\ \E k \in 1..Len(league) :
                        /\ league[k] = o
                        /\ \A j \in 1..(k - 1) : league[j] # o
                        /\ league'[k] = n
                        /\ \A j \in 1..Len(league) : j # k => league'[j] = league[j]
             ELSE /\ last'.err # ""
                  /\ league' = league]_vars

C21_Witness ==
    /\ last = Done("replace_team")
    /\ Len(league) = 3
    /\ league[1] = league[3]
    /\ league[2] # league[1]

\* the first Player of the roster holding the roster's maximum of the field,
\* None for an empty roster
FirstMax(p, field) ==
    IF Roster = <<>> THEN p = NonePlayer
    ELSE \E i \in 1..Len(Roster) :
            /\ p = Roster[i]
            /\ \A j \in 1..Len(Roster) : pl[Roster[j]][field] <= pl[p][field]
            /\ \A j \in 1..(i - 1) : pl[Roster[j]][field] < pl[p][field]

\* C22: get_best_player, get_top_scorer, get_top_assistant and
\* get_most_active_player return the earliest Player of the roster among those
\* with the greatest overall_rating, goals, assists and matches_played, and
\* None for an empty roster
C22_BestIsFirstMaximum ==
    [][/\ (GetBestPlayer(Managed) => FirstMax(ret'.player, "overall_rating"))
       /\ (GetTopScorer(Managed) => FirstMax(ret'.player, "goals"))
       /\ (GetTopAssistant(Managed) => FirstMax(ret'.player, "assists"))
       /\ (GetMostActivePlayer(Managed) => FirstMax(ret'.player, "matches_played"))]_vars

C22_Witness ==
    /\ last = Done("get_top_scorer")
    /\ Roster = <<1, 2, 3>>
    /\ ret.player = 2
    /\ pl[1].goals = 0
    /\ pl[2].goals = 1
    /\ pl[3].goals = 1

\* the first listed Team named n, None when no listed Team has that name
FirstOfName(t, n) ==
    IF \A i \in 1..Len(league) : team[league[i]].name # n THEN t = NoneTeam
    ELSE \E i \in 1..Len(league) :
            /\ t = league[i]
            /\ team[t].name = n
            /\ \A j \in 1..(i - 1) : team[league[j]].name # n

C24_FailedCallChangesNothing ==
    [][(last'.err # "") => (pl' = pl)]_vars

C24_Witness ==
    /\ last = Raised("receive_card", "Invalid card type.")
    /\ pl[1].yellow_cards = 1
    /\ pl[1].on_loan
    /\ pl[1].injured
    /\ pl[1].matches_played = 1
    /\ pl[1].position = 3

C26_LoanFieldsAgree ==
    /\ pl[1].on_loan <=> (pl[1].loaned_to # NoClub)
    /\ pl[1].on_loan <=> (pl[1].loan_duration > 0)

C26_Witness ==
    /\ last = Done("return_from_loan")
    /\ ~pl[1].on_loan
    /\ pl[1].loaned_to = NoClub
    /\ pl[1].loan_duration = 0

\* C27: in every state reached from a new Player through receive_card and
\* reset_cards, suspended is true exactly when red_cards > 0
C27_SuspendedIffRedCard ==
    pl[1].suspended <=> (pl[1].red_cards > 0)

C27_Witness ==
    /\ last = Done("receive_card")
    /\ pl[1].red_cards = 2
    /\ pl[1].yellow_cards = 1
    /\ pl[1].suspended

\* the sum of one counter over all Teams
RECURSIVE SumOver(_, _)
SumOver(ts, field) ==
    IF ts = {} THEN 0
    ELSE LET t == CHOOSE x \in ts : TRUE IN team[t][field] + SumOver(ts \ {t}, field)

\* C28: while the Teams' counters start at 0 and change only through
\* simulate_match among these Teams, the goals scored by all Teams equal the
\* goals conceded by all Teams, the wins equal the losses, and the number of
\* draws is even
C28_CountersBalance ==
    /\ SumOver(TeamIds, "goals_scored") = SumOver(TeamIds, "goals_conceded")
    /\ SumOver(TeamIds, "wins") = SumOver(TeamIds, "losses")
    /\ SumOver(TeamIds, "draws") % 2 = 0

C28_Witness ==
    /\ last = Done("simulate_match")
    /\ SumOver(TeamIds, "wins") >= 1
    /\ SumOver(TeamIds, "draws") >= 2
    /\ \A t \in {Managed, Opponent} : Played(team[t]) >= 1
    /\ team[Managed].goals_scored # team[Managed].goals_conceded

\* C29: no member of a Team's players list is retired
C29_NoRetiredMember ==
    \A t \in TeamIds, p \in PlayerIds : InSeq(p, team[t].players) => ~pl[p].retired

\* C30: add_player and remove_player leave the Team's starting_eleven, bench,
\* formation and counters as they were, also when the lineup was assigned as
\* the Team's own players list
C30_RosterCallsKeepTheRest ==
    [][\A p \in {1, Newcomer} :
          (AddPlayer(Managed, p) \/ RemovePlayer(Managed, p)) =>
             /\ team'[Managed].starting_eleven = team[Managed].starting_eleven
             /\ team'[Managed].bench = team[Managed].bench
             /\ team'[Managed].formation = team[Managed].formation
             /\ team'[Managed].goals_scored = team[Managed].goals_scored
             /\ team'[Managed].goals_conceded = team[Managed].goals_conceded
             /\ team'[Managed].wins = team[Managed].wins
             /\ team'[Managed].draws = team[Managed].draws
             /\ team'[Managed].losses = team[Managed].losses]_vars

====
